---- MODULE Spec2Model ----
(***************************************************************************)
(* Model of relay.py: the polling loop `run` of the LoRa relay, driving    *)
(* the SSD1306 display, the RFM9x radio and the three bonnet buttons.      *)
(*                                                                         *)
(* A Python str is a sequence of code points, a bytes object a sequence of *)
(* byte values.  The display is a frame buffer (the draws made since the   *)
(* last fill(0)) and a screen (the buffer as of the last show()).          *)
(* Each statement of the loop body is one action; `pc` is the statement    *)
(* about to execute.  Any call into a driver may raise; run has no         *)
(* try/except, so a raise leaves the loop (pc = "raised").                 *)
(***************************************************************************)
EXTENDS Integers, Sequences, FiniteSets, TLC

\* Number of loop iterations explored.
MaxTicks == 4

Buttons == {"A", "B", "C"}

\* what run may be handed: the result of setup(), None, or a LoraBonnet()
\* whose attributes are all still None
Bonnets == {"setup", "None", "unset"}

None == <<-1>>

\* ---- text literals of relay.py, as code points -------------------------
\* socket.gethostname(): "pi"
HostName == <<112, 105>>
\* '- Waiting for PKT -'
WaitingText == <<45, 32, 87, 97, 105, 116, 105, 110, 103, 32, 102, 111, 114, 32, 80, 75, 84, 32, 45>>
\* 'RX: '
RXText == <<82, 88, 58, 32>>
\* "Received: "
ReceivedPrefix == <<82, 101, 99, 101, 105, 118, 101, 100, 58, 32>>
\* "Sent: "
SentPrefix == <<83, 101, 110, 116, 58, 32>>

\* ord('A'), ord('B'), ord('C')
Ord(b) == CASE b = "A" -> 65 [] b = "B" -> 66 [] b = "C" -> 67

\* "Button X!\r\n"
ButtonStr(b) == <<66, 117, 116, 116, 111, 110, 32, Ord(b), 33, 13, 10>>
\* 'Sent Button X!'
SentText(b) == <<83, 101, 110, 116, 32, 66, 117, 116, 116, 111, 110, 32, Ord(b), 33>>

\* ---- UTF-8 (code points below 0x800: one- and two-byte forms) ----------
RECURSIVE Utf8Encode(_)
Utf8Encode(s) ==
    IF s = <<>> THEN <<>>
    ELSE LET c == Head(s) IN
         (IF c < 128 THEN <<c>> ELSE <<192 + (c \div 64), 128 + (c % 64)>>)
            \o Utf8Encode(Tail(s))

RECURSIVE Utf8Valid(_)
Utf8Valid(b) ==
    IF b = <<>> THEN TRUE
    ELSE IF b[1] < 128 THEN Utf8Valid(Tail(b))
    ELSE IF b[1] >= 194 /\ b[1] <= 223 /\ Len(b) >= 2 /\ b[2] >= 128 /\ b[2] <= 191
         THEN Utf8Valid(Tail(Tail(b)))
    ELSE FALSE

RECURSIVE Utf8Decode(_)
Utf8Decode(b) ==
    IF b = <<>> THEN <<>>
    ELSE IF b[1] < 128 THEN <<b[1]>> \o Utf8Decode(Tail(b))
    ELSE <<(b[1] - 192) * 64 + (b[2] - 128)>> \o Utf8Decode(Tail(Tail(b)))

\* Payloads the radio may deliver: b"hello", "é" in UTF-8, and b"\xff".
Payloads == { <<104, 101, 108, 108, 111>>, <<195, 169>>, <<255>> }

\* the message without its trailing CR LF
ButtonDataNoCRLF(b) == Utf8Encode(SubSeq(ButtonStr(b), 1, 9))

\* bytes("Button X!\r\n", "utf-8")
ButtonData(b) == Utf8Encode(ButtonStr(b))

\* ---- display and trace records -----------------------------------------
Draw(t, x, y) == [text |-> t, x |-> x, y |-> y]

Op(o, t, x, y) == [op |-> o, text |-> t, x |-> x, y |-> y]

IdentifierLine(id) == Draw(id, 35, 0)
WaitingLine == Draw(WaitingText, 15, 20)
RXLine(t) == { Draw(RXText, 0, 0), Draw(t, 25, 0) }
SentLine(b) == Draw(SentText(b), 25, 15)

VARIABLES
    pc,           \* statement of run about to execute
    exc,          \* the exception that left run, "none" while running
    identifier,   \* bonnet.identifier
    prev_packet,  \* bonnet.prev_packet
    packet,       \* local `packet`
    packet_text,  \* local `packet_text`
    pressed,      \* buttons held down at the last sampling
    btn,          \* branch taken at the last sampling: "A", "B", "C" or "none"
    buffer,       \* display frame buffer
    screen,       \* what the panel shows
    trace,        \* driver, logging and sleep calls of the current tick
    tick,         \* completed iterations
    nSendOk,      \* rfm9x.send calls that returned
    nSentLog,     \* "Sent: ..." log records
    nRecvPkt,     \* rfm9x.receive calls that returned a packet
    nRecvLog,     \* "Received: ..." log records
    hist,         \* summary of the last completed ticks
    stop,         \* an external stop has been requested
    bonnet,       \* the argument of run: set up, None, or never set up
    last_rx       \* the last packet rfm9x.receive returned, None before the first

vars == <<pc, exc, identifier, prev_packet, packet, packet_text, pressed, btn,
          buffer, screen, trace, tick, nSendOk, nSentLog, nRecvPkt, nRecvLog, hist, stop, bonnet, last_rx>>

\* left alone by every display statement
nondisplay == <<exc, identifier, prev_packet, packet, packet_text, pressed, btn,
                tick, nSendOk, nSentLog, nRecvPkt, nRecvLog, hist, stop, bonnet, last_rx>>

counters == <<nSendOk, nSentLog, nRecvPkt, nRecvLog>>

\* ---- display driver ----------------------------------------------------
fill0 == /\ buffer' = {}
         /\ trace' = Append(trace, Op("fill", <<>>, 0, 0))
         /\ UNCHANGED screen

text(t, x, y) == /\ buffer' = buffer \cup {Draw(t, x, y)}
                 /\ trace' = Append(trace, Op("text", t, x, y))
                 /\ UNCHANGED screen

show == /\ screen' = buffer
        /\ trace' = Append(trace, Op("show", <<>>, 0, 0))
        /\ UNCHANGED buffer

Init ==
    /\ pc = "check"
    /\ exc = "none"
    /\ identifier = HostName
    /\ prev_packet = None
    /\ packet = None
    /\ packet_text = <<>>
    /\ pressed = {}
    /\ btn = "none"
    /\ buffer = {}
    /\ screen = {}
    /\ trace = <<>>
    /\ tick = 0
    /\ nSendOk = 0 /\ nSentLog = 0 /\ nRecvPkt = 0 /\ nRecvLog = 0
    /\ hist = <<>>
    /\ stop = FALSE
    /\ bonnet \in Bonnets
    /\ last_rx = None

\* line 131: `if not LoraBonnet` tests the class object, which is truthy
CheckBonnet ==
    /\ pc = "check"
    /\ pc' = "fill"
    /\ UNCHANGED <<exc, identifier, prev_packet, packet, packet_text, pressed, btn,
                   buffer, screen, trace, tick, counters, hist, stop, bonnet, last_rx>>

\* line 135 on a bonnet that is None or was never set up: `bonnet.display`
\* or `.fill` is an attribute of None, AttributeError leaves run
FillUninitialized ==
    /\ pc = "fill"
    /\ bonnet # "setup"
    /\ pc' = "raised"
    /\ exc' = "AttributeError"
    /\ UNCHANGED <<identifier, prev_packet, packet, packet_text, pressed, btn,
                   buffer, screen, trace, tick, counters, hist, stop, bonnet, last_rx>>

\* a stop is requested from outside the loop; run has no variable, argument
\* or handler through which it could learn of it
RequestStop ==
    /\ ~stop
    /\ bonnet = "setup"
    /\ pc # "raised"
    /\ stop' = TRUE
    /\ UNCHANGED <<pc, exc, identifier, prev_packet, packet, packet_text, pressed, btn,
                   buffer, screen, trace, tick, counters, hist, bonnet, last_rx>>

\* line 135: bonnet.display.fill(0), first statement of an iteration
Fill ==
    /\ pc = "fill"
    /\ bonnet = "setup"
    /\ tick < MaxTicks
    /\ buffer' = {}
    /\ trace' = <<Op("fill", <<>>, 0, 0)>>
    /\ pc' = "text_id"
    /\ UNCHANGED <<screen, nondisplay>>

\* line 136
TextIdentifier ==
    /\ pc = "text_id"
    /\ text(identifier, 35, 0)
    /\ pc' = "receive"
    /\ UNCHANGED nondisplay

\* line 139: rfm9x.receive() returns None or a packet
Receive ==
    /\ pc = "receive"
    /\ \E p \in Payloads \cup {None} :
          /\ packet' = p
          /\ nRecvPkt' = IF p = None THEN nRecvPkt ELSE nRecvPkt + 1
          /\ trace' = Append(trace, Op("receive", IF p = None THEN <<>> ELSE p, 0, 0))
          /\ pc' = IF p = None THEN "show_wait" ELSE "fill_rx"
          /\ last_rx' = IF p = None THEN last_rx ELSE p
    /\ UNCHANGED <<exc, identifier, prev_packet, packet_text, pressed, btn,
                   buffer, screen, tick, nSendOk, nSentLog, nRecvLog, hist, stop, bonnet>>

\* line 139: rfm9x.receive() raises; nothing in run catches it
ReceiveRaises ==
    /\ pc = "receive"
    /\ pc' = "raised"
    /\ exc' = "receive"
    /\ UNCHANGED <<identifier, prev_packet, packet, packet_text, pressed, btn,
                   buffer, screen, trace, tick, counters, hist, stop, bonnet, last_rx>>

\* the no-packet branch without its show()
ShowWaitingSkipped ==
    /\ pc = "show_wait"
    /\ pc' = "text_wait"
    /\ UNCHANGED <<buffer, screen, trace, nondisplay>>

\* line 142: show() in the no-packet branch, before the waiting line is drawn
ShowWaiting ==
    /\ pc = "show_wait"
    /\ show
    /\ pc' = "text_wait"
    /\ UNCHANGED nondisplay

\* line 143
TextWaiting ==
    /\ pc = "text_wait"
    /\ text(WaitingText, 15, 20)
    /\ pc' = "buttons"
    /\ UNCHANGED nondisplay

\* the packet branch without its fill(0)
FillPacketSkipped ==
    /\ pc = "fill_rx"
    /\ pc' = "store"
    /\ UNCHANGED <<buffer, screen, trace, nondisplay>>

\* line 146: fill(0) in the packet branch
FillPacket ==
    /\ pc = "fill_rx"
    /\ fill0
    /\ pc' = "store"
    /\ UNCHANGED nondisplay

\* the packet is assigned to bonnet.identifier instead of bonnet.prev_packet
StorePacketIntoIdentifier ==
    /\ pc = "store"
    /\ identifier' = packet
    /\ pc' = "decode"
    /\ UNCHANGED <<exc, prev_packet, packet, packet_text, pressed, btn,
                   buffer, screen, trace, tick, counters, hist, stop, bonnet, last_rx>>

\* the packet branch without its assignment to bonnet.prev_packet
StorePacketSkipped ==
    /\ pc = "store"
    /\ pc' = "decode"
    /\ UNCHANGED <<exc, identifier, prev_packet, packet, packet_text, pressed, btn,
                   buffer, screen, trace, tick, counters, hist, stop, bonnet, last_rx>>

\* line 148
StorePacket ==
    /\ pc = "store"
    /\ prev_packet' = packet
    /\ pc' = "decode"
    /\ UNCHANGED <<exc, identifier, packet, packet_text, pressed, btn,
                   buffer, screen, trace, tick, counters, hist, stop, bonnet, last_rx>>

\* line 149: str(bonnet.prev_packet, "utf-8") on valid UTF-8
Decode ==
    /\ pc = "decode"
    /\ Utf8Valid(prev_packet)
    /\ packet_text' = Utf8Decode(prev_packet)
    /\ pc' = "text_rx"
    /\ UNCHANGED <<exc, identifier, prev_packet, packet, pressed, btn,
                   buffer, screen, trace, tick, counters, hist, stop, bonnet, last_rx>>

\* line 149: str(...) raises UnicodeDecodeError; nothing in run catches it
DecodeRaises ==
    /\ pc = "decode"
    /\ ~Utf8Valid(prev_packet)
    /\ pc' = "raised"
    /\ exc' = "decode"
    /\ UNCHANGED <<identifier, prev_packet, packet, packet_text, pressed, btn,
                   buffer, screen, trace, tick, counters, hist, stop, bonnet, last_rx>>

\* line 151
TextRX ==
    /\ pc = "text_rx"
    /\ text(RXText, 0, 0)
    /\ pc' = "text_pkt"
    /\ UNCHANGED nondisplay

\* line 152
TextPacket ==
    /\ pc = "text_pkt"
    /\ text(packet_text, 25, 0)
    /\ pc' = "log_rx"
    /\ UNCHANGED nondisplay

\* line 154: logging.info(f"Received: {packet_text}")
LogReceived ==
    /\ pc = "log_rx"
    /\ trace' = Append(trace, Op("log", ReceivedPrefix \o packet_text, 0, 0))
    /\ nRecvLog' = nRecvLog + 1
    /\ pc' = "sleep_rx"
    /\ UNCHANGED <<exc, identifier, prev_packet, packet, packet_text, pressed, btn,
                   buffer, screen, tick, nSendOk, nSentLog, nRecvPkt, hist, stop, bonnet, last_rx>>

\* the packet branch without its sleep
SleepPacketSkipped ==
    /\ pc = "sleep_rx"
    /\ pc' = "buttons"
    /\ UNCHANGED <<exc, identifier, prev_packet, packet, packet_text, pressed, btn,
                   buffer, screen, trace, tick, counters, hist, stop, bonnet, last_rx>>

\* line 155: time.sleep(1)
SleepPacket ==
    /\ pc = "sleep_rx"
    /\ trace' = Append(trace, Op("sleep", <<>>, 1000, 0))
    /\ pc' = "buttons"
    /\ UNCHANGED <<exc, identifier, prev_packet, packet, packet_text, pressed, btn,
                   buffer, screen, tick, counters, hist, stop, bonnet, last_rx>>

\* a press counts only if the button was not already down at the last sampling
ButtonBranchEdge(p) ==
    IF "A" \in p \ pressed THEN "A"
    ELSE IF "B" \in p \ pressed THEN "B"
    ELSE IF "C" \in p \ pressed THEN "C"
    ELSE "none"

\* the chain tested in the order C, B, A
ButtonBranchReversed(p) ==
    IF "C" \in p THEN "C"
    ELSE IF "B" \in p THEN "B"
    ELSE IF "A" \in p THEN "A"
    ELSE "none"

\* lines 157, 167, 177: the if / elif / elif chain over the active-low inputs
ButtonBranch(p) ==
    IF "A" \in p THEN "A"
    ELSE IF "B" \in p THEN "B"
    ELSE IF "C" \in p THEN "C"
    ELSE "none"

\* lines 157-177: the buttons are sampled; p is the set held down
SampleButtons ==
    /\ pc = "buttons"
    /\ \E p \in SUBSET Buttons :
          /\ pressed' = p
          /\ btn' = ButtonBranch(p)
          /\ pc' = IF ButtonBranch(p) = "none" THEN "show" ELSE "fill_btn"
    /\ UNCHANGED <<exc, identifier, prev_packet, packet, packet_text,
                   buffer, screen, trace, tick, counters, hist, stop, bonnet, last_rx>>

\* lines 157-177: reading a button's value raises
ButtonRaises ==
    /\ pc = "buttons"
    /\ pc' = "raised"
    /\ exc' = "button"
    /\ UNCHANGED <<identifier, prev_packet, packet, packet_text, pressed, btn,
                   buffer, screen, trace, tick, counters, hist, stop, bonnet, last_rx>>

\* lines 159, 169, 179: fill(0) in the taken button branch
FillButton ==
    /\ pc = "fill_btn"
    /\ fill0
    /\ pc' = "send"
    /\ UNCHANGED nondisplay

\* lines 161-162, 171-172, 181-182: rfm9x.send(button_x_data) returns
Send ==
    /\ pc = "send"
    /\ trace' = Append(trace, Op("send", ButtonData(btn), 0, 0))
    /\ nSendOk' = nSendOk + 1
    /\ pc' = "text_sent"
    /\ UNCHANGED <<exc, identifier, prev_packet, packet, packet_text, pressed, btn,
                   buffer, screen, tick, nSentLog, nRecvPkt, nRecvLog, hist, stop, bonnet, last_rx>>

\* lines 162, 172, 182: rfm9x.send raises; nothing in run catches it
SendRaises ==
    /\ pc = "send"
    /\ pc' = "raised"
    /\ exc' = "send"
    /\ UNCHANGED <<identifier, prev_packet, packet, packet_text, pressed, btn,
                   buffer, screen, trace, tick, counters, hist, stop, bonnet, last_rx>>

\* lines 164, 174, 184
TextSent ==
    /\ pc = "text_sent"
    /\ text(SentText(btn), 25, 15)
    /\ pc' = "log_sent"
    /\ UNCHANGED nondisplay

\* lines 165, 175, 185: logging.info(f"Sent: {str(button_x_data, 'utf-8')}")
LogSent ==
    /\ pc = "log_sent"
    /\ trace' = Append(trace, Op("log", SentPrefix \o Utf8Decode(ButtonData(btn)), 0, 0))
    /\ nSentLog' = nSentLog + 1
    /\ pc' = "show"
    /\ UNCHANGED <<exc, identifier, prev_packet, packet, packet_text, pressed, btn,
                   buffer, screen, tick, nSendOk, nRecvPkt, nRecvLog, hist, stop, bonnet, last_rx>>

\* the iteration ends without its show()
ShowSkipped ==
    /\ pc = "show"
    /\ pc' = "sleep"
    /\ UNCHANGED <<buffer, screen, trace, nondisplay>>

\* line 187
Show ==
    /\ pc = "show"
    /\ show
    /\ pc' = "sleep"
    /\ UNCHANGED nondisplay

\* ---- summary of a completed tick ---------------------------------------
Count(seq, P(_)) == Cardinality({ i \in 1..Len(seq) : P(seq[i]) })

IsSendOf(b, e) == e.op = "send" /\ e.text = ButtonData(b)
IsSentLogOf(b, e) == e.op = "log" /\ e.text = SentPrefix \o ButtonStr(b)

TickSummary ==
    [ a     |-> "A" \in pressed,
      quiet |-> packet = None /\ pressed \subseteq {"A"},
      sends |-> Count(trace, LAMBDA e : IsSendOf("A", e)),
      logs  |-> Count(trace, LAMBDA e : IsSentLogOf("A", e)) ]

LastFour(h) == IF Len(h) > 4 THEN SubSeq(h, Len(h) - 3, Len(h)) ELSE h

\* line 188: time.sleep(0.1), then back to the top of `while True`
Sleep ==
    /\ pc = "sleep"
    /\ trace' = Append(trace, Op("sleep", <<>>, 100, 0))
    /\ tick' = tick + 1
    /\ hist' = LastFour(Append(hist, TickSummary))
    /\ pc' = "fill"
    /\ UNCHANGED <<exc, identifier, prev_packet, packet, packet_text, pressed, btn,
                   buffer, screen, counters, stop, bonnet, last_rx>>

DisplayPcs == {"fill", "text_id", "show_wait", "text_wait", "fill_rx", "text_rx",
               "text_pkt", "fill_btn", "text_sent", "show"}

\* a display fault is caught and the iteration goes on to its final show()
DisplayRaisesSwallowed ==
    /\ pc \in DisplayPcs
    /\ bonnet = "setup"
    /\ pc = "fill" => tick < MaxTicks
    /\ pc' = "show"
    /\ exc' = "display"
    /\ UNCHANGED <<identifier, prev_packet, packet, packet_text, pressed, btn,
                   buffer, screen, trace, tick, counters, hist, stop, bonnet, last_rx>>

\* any display call (fill, text, show) raises; nothing in run catches it
DisplayRaises ==
    /\ pc \in DisplayPcs
    /\ bonnet = "setup"
    /\ pc = "fill" => tick < MaxTicks
    /\ pc' = "raised"
    /\ exc' = "display"
    /\ UNCHANGED <<identifier, prev_packet, packet, packet_text, pressed, btn,
                   buffer, screen, trace, tick, counters, hist, stop, bonnet, last_rx>>

Next ==
    \/ CheckBonnet
    \/ Fill
    \/ TextIdentifier
    \/ Receive
    \/ ReceiveRaises
    \/ ShowWaiting
    \/ TextWaiting
    \/ FillPacket
    \/ StorePacket
    \/ Decode
    \/ DecodeRaises
    \/ TextRX
    \/ TextPacket
    \/ LogReceived
    \/ SleepPacket
    \/ SampleButtons
    \/ ButtonRaises
    \/ FillButton
    \/ Send
    \/ SendRaises
    \/ TextSent
    \/ LogSent
    \/ Show
    \/ Sleep
    \/ DisplayRaises
    \/ FillUninitialized
    \/ RequestStop

Spec == Init /\ [][Next]_vars

\* ======================= properties ======================================

\* display calls of the current tick, in order
DisplayOps == SelectSeq(trace, LAMBDA e : e.op \in {"fill", "text", "show"})

NumOps(o) == Count(trace, LAMBDA e : e.op = o)

IsSentLog(e) == e.op = "log" /\ SubSeq(e.text, 1, Len(SentPrefix)) = SentPrefix
IsReceivedLog(e) == e.op = "log" /\ SubSeq(e.text, 1, Len(ReceivedPrefix)) = ReceivedPrefix

\* the last four completed ticks read A as released, pressed, pressed,
\* released, with B and C released and no packet throughout
QuietPressHold ==
    /\ Len(hist) = 4
    /\ \A i \in 1..4 : hist[i].quiet
    /\ [i \in 1..4 |-> hist[i].a] = <<FALSE, TRUE, TRUE, FALSE>>

\* C1 (as stated): over ticks reading A as released, pressed, pressed,
\* released there is exactly one send of the button-A message and one Sent
\* record, on the tick of the press; the tick on which A is still held sends
\* nothing.
C1_EdgeTriggered ==
    QuietPressHold =>
        /\ hist[1].sends + hist[2].sends + hist[3].sends + hist[4].sends = 1
        /\ hist[1].logs + hist[2].logs + hist[3].logs + hist[4].logs = 1
        /\ hist[2].sends = 1
        /\ hist[3].sends = 0

\* C1 (amended): sends are level-triggered; over ticks reading A as released,
\* pressed, pressed, released there is one send and one Sent record on each
\* of the two ticks that read A pressed, and none on the other two.
C1_LevelTriggered ==
    QuietPressHold =>
        /\ [i \in 1..4 |-> hist[i].sends] = <<0, 1, 1, 0>>
        /\ [i \in 1..4 |-> hist[i].logs] = <<0, 1, 1, 0>>

C1_Witness ==
    /\ QuietPressHold
    /\ hist[3].sends = 1

\* highest-priority member of a non-empty set of buttons, A before B before C
Rank(b) == CASE b = "A" -> 1 [] b = "B" -> 2 [] b = "C" -> 3
Highest(p) == CHOOSE b \in p : \A c \in p : Rank(b) <= Rank(c)

\* C2: within a tick at most one message is sent and at most one Sent record
\* is logged, and both are for the highest-priority button read as pressed.
C2_OneSendByPriority ==
    /\ NumOps("send") <= 1
    /\ Count(trace, IsSentLog) <= 1
    /\ \A i \in 1..Len(trace) :
          /\ trace[i].op = "send" =>
                pressed # {} /\ trace[i].text = ButtonData(Highest(pressed))
          /\ IsSentLog(trace[i]) =>
                pressed # {} /\ trace[i].text = SentPrefix \o ButtonStr(Highest(pressed))

C2_Witness ==
    /\ pc = "sleep"
    /\ pressed = {"A", "C"}
    /\ NumOps("send") = 1
    /\ \E i \in 1..Len(trace) : IsSendOf("A", trace[i])
    /\ \E i \in 1..Len(trace) : IsSentLogOf("A", trace[i])

\* C3 (as stated): the display calls of a tick are one clear, then draws,
\* then exactly one flush: no clear after a draw, nothing after the flush,
\* and a completed tick has flushed once.
C3_ClearDrawsFlush ==
    LET d == DisplayOps IN
    /\ \A i \in 1..Len(d) : (d[i].op = "fill") <=> (i = 1)
    /\ \A i \in 1..Len(d) : d[i].op = "show" => i = Len(d)
    /\ pc = "sleep" => NumOps("show") = 1

\* C3 (amended): the display calls of a completed tick start with a clear
\* and end with a flush; a tick without a packet flushes one more time,
\* before it draws the waiting line, and a tick clears once more for a
\* received packet and once more for a button send, after drawing.
C3_ClearFirstFlushLast ==
    LET d == DisplayOps IN
    pc = "sleep" =>
        /\ d[1].op = "fill"
        /\ d[Len(d)].op = "show"
        /\ NumOps("show") = (IF packet = None THEN 2 ELSE 1)
        /\ NumOps("fill") = 1 + (IF packet = None THEN 0 ELSE 1)
                              + (IF btn = "none" THEN 0 ELSE 1)
        /\ packet = None =>
              \E i \in 1..(Len(d) - 1) : d[i].op = "show" /\ d[i + 1] = Op("text", WaitingText, 15, 20)

C3_Witness ==
    /\ pc = "sleep"
    /\ packet = None
    /\ btn = "A"
    /\ NumOps("show") = 2
    /\ NumOps("fill") = 2

\* C4: after the final flush of a tick with no packet and no button pressed,
\* the screen holds the identifier line and the waiting line, and the tick
\* made no send and logged nothing.
C4_IdleFrame ==
    (pc = "sleep" /\ packet = None /\ pressed = {}) =>
        /\ IdentifierLine(identifier) \in screen
        /\ WaitingLine \in screen
        /\ NumOps("send") = 0
        /\ NumOps("log") = 0

C4_Witness ==
    /\ pc = "sleep"
    /\ packet = None
    /\ pressed = {}
    /\ screen = {IdentifierLine(identifier), WaitingLine}

\* C5: after the final flush of a tick that received a decodable packet, the
\* screen holds the 'RX: <text>' line of that packet and the tick logged a
\* Received record for it, whatever the buttons read.
C5_PacketShownAndLogged ==
    (pc = "sleep" /\ packet # None) =>
        /\ RXLine(Utf8Decode(packet)) \subseteq screen
        /\ \E i \in 1..Len(trace) :
              trace[i] = Op("log", ReceivedPrefix \o Utf8Decode(packet), 0, 0)

\* C6: between ticks, and when the loop has ended, there are as many Sent
\* records as sends that returned and as many Received records as receives
\* that returned a packet (display and button faults aside).
C6_OneEventPerTransfer ==
    (pc \in {"fill", "raised"} /\ exc \notin {"display", "button"}) =>
        /\ nSentLog = nSendOk
        /\ nRecvLog = nRecvPkt

\* C7: a send that raises does not end the loop; the failure is logged and
\* the tick goes on to its final flush.
C7_SendFailureNonFatal ==
    exc = "send" =>
        /\ pc # "raised"
        /\ NumOps("log") > 0

\* C8: a packet that is not valid UTF-8 does not end the loop; a warning is
\* logged and the placeholder is shown instead of the text.
C8_UndecodableNonFatal ==
    (packet # None /\ ~Utf8Valid(packet) /\ prev_packet = packet) =>
        pc \notin {"raised"}

\* C9: a receive that raises does not end the loop; the tick goes on as one
\* without a packet.
C9_ReceiveFailureNonFatal ==
    exc = "receive" => pc # "raised"

\* C10 (as stated): after the final flush of every tick the screen holds the
\* identifier line.
C10_IdentifierAlwaysShown ==
    pc = "sleep" => IdentifierLine(identifier) \in screen

\* C10 (amended): after the final flush of a tick the screen holds the
\* identifier line exactly when the tick received no packet and made no
\* button send; the fill(0) of the packet branch and of the button branches
\* removes it.
C10_IdentifierShownWhenIdle ==
    pc = "sleep" =>
        (IdentifierLine(identifier) \in screen <=> (packet = None /\ btn = "none"))

C10_Witness ==
    /\ pc = "sleep"
    /\ packet # None
    /\ btn = "none"
    /\ IdentifierLine(identifier) \notin screen
    /\ RXLine(packet_text) \subseteq screen

\* C11: once a stop has been requested the loop does not start another
\* tick: at the top of the loop it leaves instead of executing line 135.
C11_StopCheckedAtTop ==
    [][(stop /\ pc = "fill") => pc' # "text_id"]_vars

\* an iteration has just completed: trace holds all of its calls
TickDone == pc = "fill" /\ tick > 0

Sleeps == SelectSeq(trace, LAMBDA e : e.op = "sleep")

\* C12 (as stated): a tick sleeps exactly once, for 100 ms, right after its
\* final flush, also when a packet was received.
C12_OneDelay ==
    /\ Len(Sleeps) <= 1
    /\ TickDone =>
          /\ Sleeps = <<Op("sleep", <<>>, 100, 0)>>
          /\ trace[Len(trace)].op = "sleep"
          /\ trace[Len(trace) - 1].op = "show"

\* C12 (amended): every completed tick ends with the 100 ms sleep that
\* follows the final flush; a tick without a packet has no other sleep, and
\* a tick that received a packet also sleeps 1 s right after logging it.
C12_DelayPerTick ==
    TickDone =>
        /\ trace[Len(trace)] = Op("sleep", <<>>, 100, 0)
        /\ trace[Len(trace) - 1].op = "show"
        /\ Sleeps = (IF packet = None THEN <<>> ELSE <<Op("sleep", <<>>, 1000, 0)>>)
                       \o <<Op("sleep", <<>>, 100, 0)>>
        /\ packet # None =>
              \E i \in 2..Len(trace) :
                 /\ trace[i] = Op("sleep", <<>>, 1000, 0)
                 /\ IsReceivedLog(trace[i - 1])

C12_Witness ==
    /\ TickDone
    /\ packet # None
    /\ Len(Sleeps) = 2

\* C13: when the press of button X is acted on, the tick sends the bytes of
\* 'Button X!' CR LF, then draws 'Sent Button X!', then logs 'Sent: ' with
\* the same text, then makes its final flush.
C13_SendDrawLog ==
    (pc = "sleep" /\ btn # "none") =>
        LET n == Len(trace) IN
        /\ n >= 4
        /\ trace[n - 3] = Op("send", ButtonStr(btn), 0, 0)
        /\ trace[n - 2] = Op("text", SentText(btn), 25, 15)
        /\ trace[n - 1] = Op("log", SentPrefix \o ButtonStr(btn), 0, 0)
        /\ trace[n].op = "show"

C13_Witness ==
    /\ pc = "sleep"
    /\ btn = "B"
    /\ packet # None
    /\ \E i \in 1..Len(trace) :
          trace[i] = Op("send", <<66, 117, 116, 116, 111, 110, 32, 66, 33, 13, 10>>, 0, 0)

Fatal == {"display", "button"}

\* C14: a display or button fault leaves the loop, and after it there is no
\* further tick, send or log record.
C14_DisplayButtonFatal ==
    [][ /\ exc' \in Fatal => pc' = "raised"
        /\ exc \in Fatal => UNCHANGED <<pc, trace, tick, counters>> ]_vars

C14_Witness ==
    /\ pc = "raised"
    /\ exc = "button"
    /\ nSendOk >= 1
    /\ tick >= 1

\* C15: with no stop requested and no display or button fault the loop
\* never ends.
C15_NeverHalts ==
    (pc = "raised" /\ ~stop /\ bonnet = "setup") => exc \in Fatal

\* C16: no step of the loop changes bonnet.identifier.
C16_IdentifierUnchanged ==
    [][identifier' = identifier]_vars

C16_Witness ==
    /\ tick >= 2
    /\ nRecvLog >= 1
    /\ nSentLog >= 1
    /\ identifier = HostName

\* C17: handed a bonnet that is None or was never set up, run raises
\* ValueError at its check, before any display, radio or button call.
C17_RejectsUninitialized ==
    (bonnet # "setup" /\ pc # "check") =>
        /\ pc = "raised"
        /\ exc = "ValueError"
        /\ trace = <<>>

\* C18: at every sleep of a tick the last display call before it is a show.
C18_FlushedBeforeSleep ==
    \A i \in 1..Len(trace) :
       trace[i].op = "sleep" =>
          \E j \in 1..(i - 1) :
             /\ trace[j].op = "show"
             /\ \A k \in (j + 1)..(i - 1) : trace[k].op \notin {"fill", "text"}

\* the loop stands between the receive that returned a packet (line 139)
\* and the assignment of line 148, or a display fault ended it there
BeforeStore ==
    \/ pc \in {"fill_rx", "store"}
    \/ pc = "raised" /\ exc = "display" /\ trace # <<>> /\ trace[Len(trace)].op = "receive"

\* C19: bonnet.prev_packet is None until a packet has been received and
\* otherwise is the packet most recently returned by receive: ticks without
\* a packet and button sends leave it alone.
C19_PrevPacketIsLast ==
    /\ nRecvPkt = 0 => prev_packet = None
    /\ ~BeforeStore => prev_packet = last_rx

C19_Witness ==
    /\ pc = "sleep"
    /\ packet = None
    /\ btn = "A"
    /\ nRecvPkt = 1
    /\ prev_packet = <<104, 101, 108, 108, 111>>

====
